---- MODULE Spec2Model ----
(***************************************************************************)
(* cargo-xwinbuild, src/build.rs: the `Build` option record, the argument  *)
(* vector and environment overlay produced by Build::build_command, the    *)
(* MSVC CRT provisioning pipeline of Build::setup_msvc_crt over a shared   *)
(* cache directory, and the spawn/wait/exit logic of Build::execute.       *)
(*                                                                         *)
(* Strings are sequences of tokens (a token is one character, or a literal *)
(* chunk of a format string); Option<T> is a sequence of length 0 or 1.    *)
(***************************************************************************)
EXTENDS Integers, Sequences, FiniteSets, TLC

\* ---------------------------------------------------------------- bounds
\* longest list given to a repeated option (packages, bin, ...)
MaxItems == 2
\* longest architecture prefix put in front of the ABI name of a triple
MaxPrefix == 2
\* largest exit code the cargo child process returns
MaxExit == 2
\* number of times one process invokes `execute`
MaxRuns == 2

\* ------------------------------------------------------- strings and chars
LowerChars == <<"a","b","c","d","e","f","g","h","i","j","k","l","m",
                "n","o","p","q","r","s","t","u","v","w","x","y","z">>
UpperChars == <<"A","B","C","D","E","F","G","H","I","J","K","L","M",
                "N","O","P","Q","R","S","T","U","V","W","X","Y","Z">>

\* char::to_uppercase / to_lowercase on the ASCII letters; others unchanged
UpperOf == [c \in {LowerChars[i] : i \in 1..Len(LowerChars)} |->
               UpperChars[CHOOSE i \in 1..Len(LowerChars) : LowerChars[i] = c]]
LowerOf == [c \in {UpperChars[i] : i \in 1..Len(UpperChars)} |->
               LowerChars[CHOOSE i \in 1..Len(LowerChars) : UpperChars[i] = c]]
UpperChar(c) == IF c \in DOMAIN UpperOf THEN UpperOf[c] ELSE c
LowerChar(c) == IF c \in DOMAIN LowerOf THEN LowerOf[c] ELSE c

\* str::to_uppercase, str::to_lowercase
to_uppercase(s) == [i \in 1..Len(s) |-> UpperChar(s[i])]
to_lowercase(s) == [i \in 1..Len(s) |-> LowerChar(s[i])]

\* str::replace(from, to) for a one-character pattern and replacement
replace(s, from, to) == [i \in 1..Len(s) |-> IF s[i] = from THEN to ELSE s[i]]

\* str::contains(pat)
contains(s, pat) ==
    \E i \in 0..(Len(s) - Len(pat)) : \A j \in 1..Len(pat) : s[i + j] = pat[j]

\* str::split_once(sep): None (<<>>), or Some(<<before, after>>) at the FIRST sep
split_once(s, sep) ==
    IF \E i \in 1..Len(s) : s[i] = sep
    THEN LET i == CHOOSE k \in 1..Len(s) : s[k] = sep /\ \A j \in 1..(k - 1) : s[j] # sep
         IN  << <<SubSeq(s, 1, i - 1), SubSeq(s, i + 1, Len(s))>> >>
    ELSE <<>>

None == <<>>
Some(v) == <<v>>
is_some(o) == Len(o) = 1
unwrap(o) == o[1]

\* a literal of the source as a string
Lit(s) == <<s>>

MSVC == <<"m","s","v","c">>

\* ------------------------------------------------------------ BuildOptions
\* repeated-value fields of `Build`, in declaration order
RepFields == <<"packages", "exclude", "bin", "example", "test", "bench",
               "features", "message_format", "config", "unstable_flags">>

\* values given to the elements of a repeated field
Values == {Lit("a"), Lit("b")}

\* every list of at most n values
RECURSIVE ListsUpTo(_)
ListsUpTo(n) ==
    IF n = 0 THEN {<<>>}
    ELSE LET shorter == ListsUpTo(n - 1)
         IN  shorter \cup {Append(l, v) : l \in {x \in shorter : Len(x) = n - 1}, v \in Values}

\* characters an architecture prefix is made of
PrefixChars == {"A", "-"}

RECURSIVE Prefixes(_)
Prefixes(n) ==
    IF n = 0 THEN {<<>>}
    ELSE LET shorter == Prefixes(n - 1)
         IN  shorter \cup {Append(l, c) : l \in {x \in shorter : Len(x) = n - 1}, c \in PrefixChars}

\* ABI names a triple ends with
AbiNames == {MSVC, <<"M","S","V","C">>, <<"g","n","u">>}

\* the target triples of the translation runs: --target absent, or prefix then ABI name
Triples == {None} \cup {Some(pre \o abi) : pre \in Prefixes(MaxPrefix), abi \in AbiNames}

\* the target triples of the concurrent runs
FewTriples == {None, Some(<<"A","-">> \o MSVC), Some(<<"A","-","g","n","u">>)}

\* the `Build` struct (src/build.rs:15-199); `on` switches every boolean flag and
\* optional scalar on or off, field `f` holds `list`, the other repeated fields `rest`
MkBuild(on, f, list, rest, target, cache) ==
    [ quiet |-> on, workspace |-> on, all |-> on, lib |-> on, bins |-> on,
      examples |-> on, tests |-> on, benches |-> on, all_targets |-> on,
      release |-> on, all_features |-> on, no_default_features |-> on,
      ignore_rust_version |-> on, build_plan |-> on, unit_graph |-> on,
      future_incompat_report |-> on, frozen |-> on, locked |-> on, offline |-> on,
      jobs |-> IF on THEN Some(4) ELSE None,
      profile |-> IF on THEN Some(Lit("dev")) ELSE None,
      target_dir |-> IF on THEN Some(Lit("/t")) ELSE None,
      out_dir |-> IF on THEN Some(Lit("/o")) ELSE None,
      manifest_path |-> IF on THEN Some(Lit("/m/Cargo.toml")) ELSE None,
      color |-> IF on THEN Some(Lit("always")) ELSE None,
      verbose |-> IF on THEN 2 ELSE 0,
      packages |-> IF f = "packages" THEN list ELSE rest,
      exclude |-> IF f = "exclude" THEN list ELSE rest,
      bin |-> IF f = "bin" THEN list ELSE rest,
      example |-> IF f = "example" THEN list ELSE rest,
      test |-> IF f = "test" THEN list ELSE rest,
      bench |-> IF f = "bench" THEN list ELSE rest,
      features |-> IF f = "features" THEN list ELSE rest,
      message_format |-> IF f = "message_format" THEN list ELSE rest,
      config |-> IF f = "config" THEN list ELSE rest,
      unstable_flags |-> IF f = "unstable_flags" THEN list ELSE rest,
      target |-> target,
      xwin_cache_dir |-> cache ]

\* the value of a repeated field by name
Field(o, name) == o[name]

\* ------------------------------------------- build_command: argument vector
\* `if self.x { build.arg(flag); }`
Switch(b, flag) == IF b THEN <<Lit(flag)>> ELSE <<>>

\* `for v in &self.x { build.arg(flag).arg(v); }`
RECURSIVE Pairs(_, _)
Pairs(flag, list) ==
    IF list = <<>> THEN <<>>
    ELSE <<Lit(flag), Head(list)>> \o Pairs(flag, Tail(list))

\* `if let Some(v) = self.x.as_ref() { build.arg(flag).arg(v); }`
Opt(flag, o) == IF is_some(o) THEN <<Lit(flag), unwrap(o)>> ELSE <<>>

\* `"v".repeat(n)`
repeat(c, n) == [i \in 1..n |-> c]

\* the arguments of Command::new("cargo") after src/build.rs:224-338
BuildArgs(o, subcommand) ==
       <<Lit(subcommand)>>
    \o Switch(o.quiet, "--quiet")
    \o Pairs("--package", o.packages)
    \o Switch(o.workspace, "--workspace")
    \o Pairs("--excude", o.exclude)
    \o Switch(o.all, "--all")
    \o (IF is_some(o.jobs) THEN <<Lit("--jobs"), Lit(ToString(unwrap(o.jobs)))>> ELSE <<>>)
    \o Switch(o.lib, "--lib")
    \o Pairs("--bin", o.bin)
    \o Switch(o.bins, "--bins")
    \o Pairs("--example", o.example)
    \o Switch(o.examples, "--examples")
    \o Pairs("--test", o.test)
    \o Switch(o.tests, "--tests")
    \o Pairs("--bench", o.bench)
    \o Switch(o.benches, "--benches")
    \o Switch(o.all_targets, "--all-targets")
    \o Switch(o.release, "--release")
    \o Opt("--profile", o.profile)
    \o Pairs("--features", o.features)
    \o Switch(o.all_features, "--all-features")
    \o Switch(o.no_default_features, "--no-default-features")
    \o Opt("--target", o.target)
    \o Opt("--target-dir", o.target_dir)
    \o Opt("--out-dir", o.out_dir)
    \o Opt("--manifest-path", o.manifest_path)
    \o Switch(o.ignore_rust_version, "--ignore-rust-version")
    \o Pairs("--message-format", o.message_format)
    \o Switch(o.build_plan, "--build-plan")
    \o Switch(o.unit_graph, "--unit-graph")
    \o Switch(o.future_incompat_report, "--future-incompat-report")
    \o (IF o.verbose > 0 THEN << Lit("-") \o repeat("v", o.verbose) >> ELSE <<>>)
    \o Opt("--color", o.color)
    \o Switch(o.frozen, "--frozen")
    \o Switch(o.locked, "--locked")
    \o Switch(o.offline, "--offline")
    \o Pairs("--config", o.config)
    \o Pairs("-Z", o.unstable_flags)

\* ------------------------------------- build_command: environment overlay
\* the directory dirs::cache_dir().join(CARGO_PKG_NAME).join("xwin")
DefaultCacheDir == <<"$CACHE", "/cargo-xwinbuild", "/xwin">>

\* `self.xwin_cache_dir.clone().unwrap_or_else(...)`, as displayed
CacheDir(o) == IF is_some(o.xwin_cache_dir) THEN unwrap(o.xwin_cache_dir) ELSE DefaultCacheDir

\* the ABI name matched without regard to case
IsMsvcAnyCase(target) == contains(to_lowercase(target), MSVC)

\* `target.contains("msvc")`
IsMsvc(target) == contains(target, MSVC)

\* Command::env(key, val): a later value for a key replaces the earlier one
EnvSet(e, key, val) == {kv \in e : kv[1] # key} \cup {<<key, val>>}

\* the suffix with its dashes left in
EnvTargetNoReplace(target) == to_uppercase(target)

\* `target.to_uppercase().replace('-', "_")`
EnvTarget(target) == replace(to_uppercase(target), "-", "_")

\* `format!("clang-cl --target={}", target)`
ClangCl(target) == Lit("clang-cl --target=") \o target

\* the cl_flags string of src/build.rs:358-361
ClFlags(dir) ==
       Lit("-fuse-ld=lld-link /imsvc") \o dir \o Lit("/crt/include /imsvc")
    \o dir \o Lit("/sdk/include/ucrt /imsvc") \o dir \o Lit("/sdk/include/um /imsvc")
    \o dir \o Lit("/sdk/include/shared")

\* `target.split_once('-').map(|(x, _)| x)`
TargetArch(target) ==
    IF is_some(split_once(target, "-")) THEN Some(unwrap(split_once(target, "-"))[1]) ELSE None

\* the rustflags string of src/build.rs:370-374
RustFlags(dir, arch) ==
       Lit("-Lnative=") \o dir \o Lit("/crt/lib/") \o arch
    \o Lit(" -Lnative=") \o dir \o Lit("/sdk/lib/um/") \o arch
    \o Lit(" -Lnative=") \o dir \o Lit("/sdk/lib/ucrt/") \o arch

\* the environment set before the architecture is split off (src/build.rs:343-364)
EnvBeforeArch(target, dir) ==
    LET env_target == EnvTarget(target)
        e1 == EnvSet({}, Lit("TARGET_CC"), ClangCl(target))
        e2 == EnvSet(e1, Lit("TARGET_CXX"), ClangCl(target))
        e3 == EnvSet(e2, Lit("CC_") \o to_lowercase(env_target), ClangCl(target))
        e4 == EnvSet(e3, Lit("CXX_") \o to_lowercase(env_target), ClangCl(target))
        e5 == EnvSet(e4, Lit("TARGET_AR"), Lit("llvm-lib"))
        e6 == EnvSet(e5, Lit("AR_") \o env_target, Lit("llvm-lib"))
        e7 == EnvSet(e6, Lit("CARGO_TARGET_") \o env_target \o Lit("_LINKER"), Lit("lld-link"))
        e8 == EnvSet(e7, Lit("CL_FLAGS"), ClFlags(dir))
        e9 == EnvSet(e8, Lit("CFLAGS_") \o to_lowercase(env_target), ClFlags(dir))
    IN  EnvSet(e9, Lit("CXXFLAGS_") \o to_lowercase(env_target), ClFlags(dir))

\* the llvm directory appended to PATH on a macOS host (src/build.rs:377-388);
\* `path` is the PATH of the calling process, None when env::var fails
LlvmBin(host) ==
    IF host = "macos-x86_64" THEN Lit("/usr/local/opt/llvm/bin")
    ELSE Lit("/opt/homebrew/opt/llvm/bin")

EnvPath(e, host, path) ==
    IF host \in {"macos-x86_64", "macos-aarch64"} /\ is_some(path)
    THEN LET old == unwrap(path)
             new_path == IF ~contains(old, LlvmBin(host))
                         THEN old \o Lit(":") \o LlvmBin(host)
                         ELSE old
         IN  EnvSet(e, Lit("PATH"), new_path)
    ELSE e

\* the whole overlay of a command that build_command returns for an msvc target
MsvcEnv(target, dir, host, path) ==
    LET e  == EnvBeforeArch(target, dir)
        rf == RustFlags(dir, unwrap(TargetArch(target)))
        e2 == EnvSet(e, Lit("CARGO_TARGET_") \o EnvTarget(target) \o Lit("_RUSTFLAGS"), rf)
    IN  EnvPath(e2, host, path)

\* hosts the tool is built for, each with the PATH it is started under
HostCases == { <<"linux", Some(Lit("/usr/bin"))>>,
               <<"macos-x86_64", Some(Lit("/usr/bin"))>>,
               <<"macos-aarch64", Some(Lit("/usr/bin") \o Lit(":") \o Lit("/opt/homebrew/opt/llvm/bin"))>> }

\* ------------------------------------------------------------------ state
Procs == {1, 2}

VARIABLES
    opts,      \* the parsed `Build` value both processes run with
    host,      \* target_os/target_arch the tool was compiled for
    envPath,   \* PATH of the calling process
    fs,        \* the cache directory: dir (exists), marker (DONE is a file),
               \* splat (extracted tree), dl and unpack (scratch directories)
    pc,        \* where each process is inside execute()
    cmd,       \* the Command each process is building: args and env
    err,       \* the error execute() returns, "" when none
    call,      \* what the current setup_msvc_crt call of a process has done
    child,     \* the cargo child of each process
    exit,      \* the code given to process::exit, None when it was not called
    runs,      \* invocations of execute() a process has started
    extracted  \* some ctx.execute call returned Ok

vars == <<opts, host, envPath, fs, pc, cmd, err, call, child, exit, runs, extracted>>

NoCmd == [args |-> <<>>, env |-> {}]
NoCall == [entered |-> FALSE, marked |-> FALSE, ctx |-> FALSE, fetches |-> 0,
           executes |-> 0, ok |-> FALSE]
NoChild == [spawned |-> FALSE, ended |-> FALSE, code |-> None]

EmptyFs == [dir |-> FALSE, marker |-> FALSE, splat |-> "none", dl |-> FALSE, unpack |-> FALSE]

Fresh(first, started) ==
    /\ fs = EmptyFs
    /\ pc = [p \in Procs |-> IF p \in first THEN "start" ELSE "off"]
    /\ cmd = [p \in Procs |-> NoCmd]
    /\ err = [p \in Procs |-> ""]
    /\ call = [p \in Procs |-> NoCall]
    /\ child = [p \in Procs |-> NoChild]
    /\ exit = [p \in Procs |-> None]
    /\ runs = [p \in Procs |-> IF p \in first THEN started ELSE 0]
    /\ extracted = FALSE

\* two processes share one cache directory
Init ==
    /\ \E t \in FewTriples, c \in {None, Some(Lit("/c"))} :
           opts = MkBuild(FALSE, "packages", <<>>, <<>>, t, c)
    /\ host = "linux"
    /\ envPath = Some(Lit("/usr/bin"))
    /\ Fresh(Procs, 1)

\* the inputs of the translation runs: every triple with every list of packages
\* on every host, and every repeated field with every list on a linux host
InputsT ==
    { <<MkBuild(on, "packages", l, <<>>, t, IF on THEN Some(Lit("/c")) ELSE None), h>> :
          on \in BOOLEAN, l \in ListsUpTo(MaxItems), t \in Triples, h \in HostCases }
    \cup
    { <<MkBuild(on, RepFields[i], l, <<>>, t, IF on THEN Some(Lit("/c")) ELSE None),
        <<"linux", Some(Lit("/usr/bin"))>> >> :
          on \in BOOLEAN, i \in 1..Len(RepFields), l \in ListsUpTo(MaxItems), t \in FewTriples }

\* one process in its last invocations, every input of the bounded input space
InitT ==
    /\ \E in \in InputsT : opts = in[1] /\ host = in[2][1] /\ envPath = in[2][2]
    /\ Fresh({1}, MaxRuns - 1)

\* `return Err(e)` out of execute()
Fail(p, e) ==
    /\ pc' = [pc EXCEPT ![p] = "returned_err"]
    /\ err' = [err EXCEPT ![p] = e]

Goto(p, l) == pc' = [pc EXCEPT ![p] = l]

\* --------------------------------------------------------- build_command
\* src/build.rs:214-342: resolve and create the cache directory, collect the
\* arguments, then either return the command or enter setup_msvc_crt
BuildCommandBegin(p) ==
    /\ pc[p] = "start"
    /\ \E created \in (IF fs.dir THEN {TRUE} ELSE BOOLEAN) :
          IF ~created
          THEN /\ Fail(p, "create_dir_all")
               /\ UNCHANGED <<fs, cmd, call>>
          ELSE /\ fs' = [fs EXCEPT !.dir = TRUE]
               /\ cmd' = [cmd EXCEPT ![p] = [args |-> BuildArgs(opts, "build"), env |-> {}]]
               /\ IF is_some(opts.target) /\ IsMsvc(unwrap(opts.target))
                  THEN /\ Goto(p, "check")
                       /\ call' = [call EXCEPT ![p].entered = TRUE]
                  ELSE /\ Goto(p, "built")
                       /\ UNCHANGED call
               /\ UNCHANGED err
    /\ UNCHANGED <<opts, host, envPath, child, exit, runs, extracted>>

\* -------------------------------------------------------- setup_msvc_crt
\* the marker is never looked at
is_file_never == FALSE

\* `done_mark_file.is_file()`
is_file_done == fs.marker

\* the error of setup_msvc_crt is dropped and build_command goes on
SetupErrIgnored(p, e) == Goto(p, "envs") /\ UNCHANGED err

\* `self.setup_msvc_crt(xwin_cache_dir.clone())?` when the call returns Err
SetupErr(p, e) == Fail(p, e)

\* the marker check behind a lock that a process holds while it provisions
CheckMarkerLocked(p) ==
    /\ pc[p] = "check"
    /\ \A q \in Procs \ {p} :
          pc[q] \notin {"ctx", "manifest", "prune", "splat", "extracting", "mark", "cleanup"}
    /\ IF fs.marker
       THEN /\ Goto(p, "envs")
            /\ call' = [call EXCEPT ![p].marked = fs.marker, ![p].ok = TRUE]
       ELSE /\ Goto(p, "ctx")
            /\ call' = [call EXCEPT ![p].marked = fs.marker]
    /\ UNCHANGED <<opts, host, envPath, fs, cmd, err, child, exit, runs, extracted>>

\* src/build.rs:396-399: the marker check, the only guard of the pipeline
CheckMarker(p) ==
    /\ pc[p] = "check"
    /\ IF is_file_done
       THEN /\ Goto(p, "envs")
            /\ call' = [call EXCEPT ![p].marked = fs.marker, ![p].ok = TRUE]
       ELSE /\ Goto(p, "ctx")
            /\ call' = [call EXCEPT ![p].marked = fs.marker]
    /\ UNCHANGED <<opts, host, envPath, fs, cmd, err, child, exit, runs, extracted>>

\* src/build.rs:401-407: Ctx::with_dir or Ctx::with_temp
CreateCtx(p) ==
    /\ pc[p] = "ctx"
    /\ \E made \in BOOLEAN :
          IF made
          THEN /\ Goto(p, "manifest")
               /\ call' = [call EXCEPT ![p].ctx = TRUE]
               /\ UNCHANGED err
          ELSE /\ SetupErr(p, "ctx")
               /\ UNCHANGED call
    /\ UNCHANGED <<opts, host, envPath, fs, cmd, child, exit, runs, extracted>>

\* src/build.rs:408, 488-510: load_manifest, two network fetches
LoadManifest(p) ==
    /\ pc[p] = "manifest"
    /\ call' = [call EXCEPT ![p].fetches = @ + 1]
    /\ \E fetched \in BOOLEAN :
          IF fetched
          THEN Goto(p, "prune") /\ UNCHANGED err
          ELSE SetupErr(p, "manifest")
    /\ UNCHANGED <<opts, host, envPath, fs, cmd, child, exit, runs, extracted>>

\* src/build.rs:410-473: the masks, prune_pkg_list, the splat config, the work items
Prune(p) ==
    /\ pc[p] = "prune"
    /\ \E pruned \in BOOLEAN :
          IF pruned
          THEN Goto(p, "splat") /\ UNCHANGED err
          ELSE SetupErr(p, "prune")
    /\ UNCHANGED <<opts, host, envPath, fs, cmd, call, child, exit, runs, extracted>>

\* src/build.rs:474: ctx.execute starts downloading, unpacking and splatting into
\* the cache directory; its scratch directories are in the cache directory when
\* the context was made with_dir
ExecuteBegin(p) ==
    /\ pc[p] = "splat"
    /\ call' = [call EXCEPT ![p].executes = @ + 1]
    /\ fs' = [fs EXCEPT !.splat = IF @ = "none" THEN "partial" ELSE @,
                        !.dl = @ \/ is_some(opts.xwin_cache_dir),
                        !.unpack = @ \/ is_some(opts.xwin_cache_dir)]
    /\ Goto(p, "extracting")
    /\ UNCHANGED <<opts, host, envPath, cmd, err, child, exit, runs, extracted>>

\* ctx.execute returns and its error is dropped
ExecuteEndIgnoresErr(p) ==
    /\ pc[p] = "extracting"
    /\ \E done \in BOOLEAN :
          /\ fs' = [fs EXCEPT !.splat = IF done THEN "full" ELSE @]
          /\ extracted' = (extracted \/ done)
          /\ Goto(p, "mark")
    /\ UNCHANGED <<opts, host, envPath, cmd, err, call, child, exit, runs>>

\* src/build.rs:474: ctx.execute returns
ExecuteEnd(p) ==
    /\ pc[p] = "extracting"
    /\ \E done \in BOOLEAN :
          IF done
          THEN /\ fs' = [fs EXCEPT !.splat = "full"]
               /\ extracted' = TRUE
               /\ Goto(p, "mark")
               /\ UNCHANGED err
          ELSE /\ SetupErr(p, "execute")
               /\ UNCHANGED <<fs, extracted>>
    /\ UNCHANGED <<opts, host, envPath, cmd, call, child, exit, runs>>

\* src/build.rs:475: fs::write(done_mark_file, "")?
WriteMarker(p) ==
    /\ pc[p] = "mark"
    /\ \E written \in BOOLEAN :
          IF written
          THEN /\ fs' = [fs EXCEPT !.marker = TRUE]
               /\ Goto(p, "cleanup")
               /\ UNCHANGED err
          ELSE /\ SetupErr(p, "write")
               /\ UNCHANGED fs
    /\ UNCHANGED <<opts, host, envPath, cmd, call, child, exit, runs, extracted>>

\* src/build.rs:477-485: best-effort removal of dl and unpack, then Ok(())
Cleanup(p) ==
    /\ pc[p] = "cleanup"
    /\ \E dl_left \in (IF fs.dl THEN BOOLEAN ELSE {FALSE}),
          unpack_left \in (IF fs.unpack THEN BOOLEAN ELSE {FALSE}) :
          fs' = [fs EXCEPT !.dl = dl_left, !.unpack = unpack_left]
    /\ call' = [call EXCEPT ![p].ok = TRUE]
    /\ Goto(p, "envs")
    /\ UNCHANGED <<opts, host, envPath, cmd, err, child, exit, runs, extracted>>

\* the overlay is set only by a call that ran the pipeline itself
SetEnvWhenProvisioned(p) ==
    /\ pc[p] = "envs"
    /\ LET target == unwrap(opts.target) IN
          IF is_some(TargetArch(target))
          THEN /\ cmd' = [cmd EXCEPT ![p].env = IF call[p].marked THEN {}
                              ELSE MsvcEnv(target, CacheDir(opts), host, envPath)]
               /\ Goto(p, "built")
               /\ UNCHANGED err
          ELSE /\ cmd' = [cmd EXCEPT ![p].env = EnvBeforeArch(target, CacheDir(opts))]
               /\ Fail(p, "invalid target triple")
    /\ UNCHANGED <<opts, host, envPath, fs, call, child, exit, runs, extracted>>

\* src/build.rs:343-392: the environment overlay, then Ok(build)
SetEnv(p) ==
    /\ pc[p] = "envs"
    /\ LET target == unwrap(opts.target) IN
          IF is_some(TargetArch(target))
          THEN /\ cmd' = [cmd EXCEPT ![p].env = MsvcEnv(target, CacheDir(opts), host, envPath)]
               /\ Goto(p, "built")
               /\ UNCHANGED err
          ELSE /\ cmd' = [cmd EXCEPT ![p].env = EnvBeforeArch(target, CacheDir(opts))]
               /\ Fail(p, "invalid target triple")
    /\ UNCHANGED <<opts, host, envPath, fs, call, child, exit, runs, extracted>>

\* ---------------------------------------------------------------- execute
\* src/build.rs:205: build.spawn().context("Failed to run cargo build")?
Spawn(p) ==
    /\ pc[p] = "built"
    /\ \E started \in BOOLEAN :
          IF started
          THEN /\ child' = [child EXCEPT ![p].spawned = TRUE]
               /\ Goto(p, "waiting")
               /\ UNCHANGED err
          ELSE /\ Fail(p, "Failed to run cargo build")
               /\ UNCHANGED child
    /\ UNCHANGED <<opts, host, envPath, fs, cmd, call, exit, runs, extracted>>

\* ExitStatus::code() of the child: Some(c), or None when a signal ended it
Statuses == {None} \cup {Some(c) : c \in 0..MaxExit}

\* ExitStatus::success()
success(code) == code = Some(0)

\* every failure exits with 1
ExitCodeAlwaysOne(code) == 1

\* `status.code().unwrap_or(1)`
ExitCode(code) == IF is_some(code) THEN unwrap(code) ELSE 1

\* src/build.rs:206-210: wait, then process::exit or Ok(())
Wait(p) ==
    /\ pc[p] = "waiting"
    /\ \E code \in Statuses :
          /\ child' = [child EXCEPT ![p].ended = TRUE, ![p].code = code]
          /\ IF ~success(code)
             THEN /\ exit' = [exit EXCEPT ![p] = Some(ExitCode(code))]
                  /\ Goto(p, "exited")
             ELSE /\ Goto(p, "returned_ok")
                  /\ UNCHANGED exit
    /\ UNCHANGED <<opts, host, envPath, fs, cmd, err, call, runs, extracted>>

Ended == {"returned_ok", "returned_err", "exited"}

\* the tool is run again with the same options
Reinvoke(p) ==
    /\ pc[p] \in Ended
    /\ runs[p] < MaxRuns
    /\ runs' = [runs EXCEPT ![p] = @ + 1]
    /\ Goto(p, "start")
    /\ cmd' = [cmd EXCEPT ![p] = NoCmd]
    /\ err' = [err EXCEPT ![p] = ""]
    /\ call' = [call EXCEPT ![p] = NoCall]
    /\ child' = [child EXCEPT ![p] = NoChild]
    /\ exit' = [exit EXCEPT ![p] = None]
    /\ UNCHANGED <<opts, host, envPath, fs, extracted>>

Next ==
    \E p \in Procs :
        \/ BuildCommandBegin(p)
        \/ CheckMarker(p)
        \/ CreateCtx(p)
        \/ LoadManifest(p)
        \/ Prune(p)
        \/ ExecuteBegin(p)
        \/ ExecuteEnd(p)
        \/ WriteMarker(p)
        \/ Cleanup(p)
        \/ SetEnv(p)
        \/ Spawn(p)
        \/ Wait(p)
        \/ Reinvoke(p)

Spec == Init /\ [][Next]_vars
SpecT == InitT /\ [][Next]_vars

\* ------------------------------------------------------------- vocabulary
\* build_command of p has returned Ok(build)
BcOk(p) == \/ pc[p] \in {"built", "waiting", "returned_ok", "exited"}
           \/ pc[p] = "returned_err" /\ err[p] = "Failed to run cargo build"

\* the errors setup_msvc_crt returns
SetupErrors == {"ctx", "manifest", "prune", "execute", "write"}

HasMsvc(o) == is_some(o.target) /\ contains(unwrap(o.target), MSVC)

EnvNames(e) == {kv[1] : kv \in e}

\* C1: a setup_msvc_crt call that finds the marker returns Ok at once, without a
\* context, a manifest fetch or an extraction, and leaves the cache directory as
\* it is; so does every invocation after a successful provisioning run.
C1_MarkerSkipsPipeline ==
    [][\A p \in Procs :
          /\ (pc[p] = "check" /\ fs.marker /\ pc'[p] # pc[p])
                => (pc'[p] = "envs" /\ call'[p].ok /\ fs' = fs)
          /\ call'[p].marked
                => (~call'[p].ctx /\ call'[p].fetches = 0 /\ call'[p].executes = 0)]_vars

C1_Witness ==
    \E p \in Procs : runs[p] > 1 /\ call[p].marked /\ call[p].ok /\ pc[p] = "waiting"

\* C2: the marker is written only after extraction returned Ok: a step that fails
\* in context creation, fetch, pruning or extraction returns the error and leaves
\* the marker as it was, a call that finds no marker enters the pipeline, and the
\* marker is present only if some extraction has succeeded.
C2_MarkerOnlyAfterExtraction ==
    [][/\ fs'.marker => extracted'
       /\ \A p \in Procs :
            /\ (pc[p] \in {"ctx", "manifest", "prune", "extracting"} /\ pc'[p] = "returned_err")
                  => (fs'.marker = fs.marker /\ err'[p] \in SetupErrors)
            /\ (pc[p] = "check" /\ ~fs.marker /\ pc'[p] # pc[p]) => pc'[p] = "ctx"]_vars

C2_Witness ==
    \E p \in Procs :
        /\ runs[p] = 2 /\ pc[p] = "prune" /\ call[p].fetches = 1
        /\ fs.splat = "partial" /\ ~fs.marker
        /\ \A q \in Procs \ {p} : pc[q] = "start" /\ runs[q] = 1

\* C3: for an msvc target cargo is spawned only after setup_msvc_crt returned Ok,
\* and a setup error is the error execute() returns, with no child spawned.
C3_ProvisionBeforeSpawn ==
    \A p \in Procs :
        /\ (HasMsvc(opts) /\ child[p].spawned) => call[p].ok
        /\ (call[p].entered /\ ~call[p].ok) => ~child[p].spawned
        /\ err[p] \in SetupErrors => (pc[p] = "returned_err" /\ ~child[p].spawned)

C3_Witness ==
    \E p \in Procs : child[p].spawned /\ call[p].ok /\ call[p].executes = 1

\* C4: without --target, or with a triple that does not contain "msvc", a call of
\* build_command never enters setup_msvc_crt, fetches and extracts nothing, and
\* the command has an empty environment overlay.
C4_NoMsvcNoToolchain ==
    \A p \in Procs :
        ~HasMsvc(opts) =>
            /\ call[p] = NoCall
            /\ cmd[p].env = {}
            /\ fs.splat = "none" /\ ~fs.marker /\ ~fs.dl /\ ~fs.unpack

C4_Witness ==
    /\ opts.target = Some(<<"A", "-", "M", "S", "V", "C">>)
    /\ pc[1] = "waiting"

\* C5: once the child has been waited for, a successful child makes execute()
\* return Ok, a child with code c # 0 makes the program exit with c, and a child
\* without a code makes it exit with 1; no error value comes out of a child status.
C5_ExitStatusPropagated ==
    \A p \in Procs :
        /\ child[p].ended =>
              /\ err[p] = ""
              /\ IF child[p].code = Some(0)
                 THEN pc[p] = "returned_ok" /\ exit[p] = None
                 ELSE /\ pc[p] = "exited"
                      /\ exit[p] = IF child[p].code = None THEN Some(1) ELSE child[p].code
        /\ is_some(exit[p]) => child[p].ended

C5_Witness ==
    \E p \in Procs : pc[p] = "exited" /\ child[p].code = Some(MaxExit) /\ exit[p] = Some(MaxExit)

\* the suffix the specification gives: '-' replaced by '_', in uppercase
UpperSuffix(t) == to_uppercase(replace(t, "-", "_"))

GlobalNames == {Lit("TARGET_CC"), Lit("TARGET_CXX"), Lit("TARGET_AR"), Lit("CL_FLAGS"), Lit("PATH")}

\* the architecture-suffixed names in the overlay of p
SuffixedNames(p) == EnvNames(cmd[p].env) \ GlobalNames

UpperOnlyNames(S) ==
    { Lit("AR_") \o S, Lit("CARGO_TARGET_") \o S \o Lit("_LINKER"),
      Lit("CARGO_TARGET_") \o S \o Lit("_RUSTFLAGS") }

CompilerNames(S) ==
    { Lit("CC_") \o S, Lit("CXX_") \o S, Lit("CFLAGS_") \o S, Lit("CXXFLAGS_") \o S }

\* C6, as claimed: every architecture-suffixed variable carries the uppercase suffix.
C6_AllUpperSuffix ==
    \A p \in Procs :
        HasMsvc(opts) =>
            LET S == UpperSuffix(unwrap(opts.target))
            IN  SuffixedNames(p) \subseteq (UpperOnlyNames(S) \cup CompilerNames(S))

\* C6, amended: AR_*, CARGO_TARGET_*_LINKER and CARGO_TARGET_*_RUSTFLAGS carry the
\* uppercase suffix; CC_*, CXX_*, CFLAGS_* and CXXFLAGS_* carry that suffix in
\* lowercase; a returned command has all seven.
C6_UpperAndLowerSuffix ==
    \A p \in Procs :
        HasMsvc(opts) =>
            LET S == UpperSuffix(unwrap(opts.target))
                names == UpperOnlyNames(S) \cup CompilerNames(to_lowercase(S))
            IN  /\ SuffixedNames(p) \subseteq names
                /\ BcOk(p) => SuffixedNames(p) = names

C6_Witness ==
    /\ opts.target = Some(<<"A", "-", "m", "s", "v", "c">>)
    /\ BcOk(1)
    /\ <<"AR_", "A", "_", "M", "S", "V", "C">> \in EnvNames(cmd[1].env)
    /\ <<"CC_", "a", "_", "m", "s", "v", "c">> \in EnvNames(cmd[1].env)

\* the flag of `cargo build` for each repeated field, in the order of RepFields
CargoFlags == <<"--package", "--exclude", "--bin", "--example", "--test", "--bench",
                "--features", "--message-format", "--config", "-Z">>

\* the arguments that directly follow an occurrence of flag, in order
RECURSIVE ValuesAfter(_, _)
ValuesAfter(args, flag) ==
    IF Len(args) < 2 THEN <<>>
    ELSE IF Head(args) = Lit(flag)
         THEN <<args[2]>> \o ValuesAfter(Tail(Tail(args)), flag)
         ELSE ValuesAfter(Tail(args), flag)

Occurrences(args, flag) == Cardinality({i \in 1..Len(args) : args[i] = Lit(flag)})

\* C7: each repeated field gives one (flag, element) pair per element, in input
\* order, under the cargo flag of the field.
C7_RepeatedFlags ==
    \A p \in Procs :
        BcOk(p) =>
            \A i \in 1..Len(RepFields) :
                /\ ValuesAfter(cmd[p].args, CargoFlags[i]) = Field(opts, RepFields[i])
                /\ Occurrences(cmd[p].args, CargoFlags[i]) = Len(Field(opts, RepFields[i]))

\* no '-' in the triple, or nothing before the first '-'
NoArchPrefix(t) == (\A i \in 1..Len(t) : t[i] # "-") \/ (Len(t) > 0 /\ t[1] = "-")

\* C8: for an msvc triple without a non-empty architecture before a '-',
\* build_command returns no command, and no returned command has a rustflags
\* search path with an empty architecture.
C8_InvalidTripleRejected ==
    \A p \in Procs :
        /\ (HasMsvc(opts) /\ NoArchPrefix(unwrap(opts.target))) => ~BcOk(p)
        /\ BcOk(p) => \A kv \in cmd[p].env : kv[2] # RustFlags(CacheDir(opts), <<>>)

\* what build_command of p returned
BcResult(p) == [ok |-> BcOk(p),
                cmd |-> IF BcOk(p) THEN cmd[p] ELSE NoCmd,
                error |-> IF BcOk(p) THEN "" ELSE err[p]]

\* build_command of p has returned
BcDone(p) == pc[p] \in {"built", "waiting", "returned_ok", "exited", "returned_err"}

\* C9, as claimed: a step of build_command leaves the file system as it is, and
\* any two calls that have returned have returned the same result.
C9_PureTranslation ==
    [][\A p, q \in Procs :
          /\ (pc[p] \in {"start", "check", "ctx", "manifest", "prune", "splat",
                         "extracting", "mark", "cleanup", "envs"} /\ pc'[p] # pc[p])
                => fs' = fs
          /\ (BcDone(p)' /\ BcDone(q)') => BcResult(p)' = BcResult(q)']_vars

\* C9, amended: any two calls that both returned a command returned the same
\* argument vector and the same environment overlay.
C9_SameCommandWhenOk ==
    \A p, q \in Procs : (BcOk(p) /\ BcOk(q)) => cmd[p] = cmd[q]

C9_Witness ==
    \E p, q \in Procs :
        /\ BcOk(p) /\ BcOk(q) /\ HasMsvc(opts)
        /\ call[p].executes = 1 /\ call[q].marked
        /\ cmd[p].env # {}

\* C10: nothing but the marker guards the pipeline: a process at the marker check
\* with the marker absent can enter the pipeline whatever the other process does.
C10_OnlyMarkerGuards ==
    \A p \in Procs :
        (pc[p] = "check" /\ ~fs.marker) => ENABLED (CheckMarker(p) /\ pc'[p] = "ctx")

\* both processes passed the check, both fetched and started extracting, one has
\* written the marker and the other is still extracting
C10_Witness ==
    \E p, q \in Procs :
        /\ p # q
        /\ pc[p] = "extracting" /\ ~call[p].marked /\ call[p].fetches = 1
        /\ pc[q] = "cleanup" /\ ~call[q].marked /\ call[q].fetches = 1 /\ call[q].executes = 1
        /\ fs.marker

====
